---- MODULE Spec2Model ----
(***************************************************************************)
(* Video Composition Engine of videoStacking-video-processor.              *)
(*                                                                         *)
(* Two specifications share this module:                                   *)
(*   Spec      one render request going through FFmpegRenderer:            *)
(*             generateVideo -> buildCommand -> (single pass |             *)
(*             buildCommandChunked: renderChunk*, concatenateChunksWith-   *)
(*             Transitions, addAudioAndOverlays, chunk cleanup) -> run.    *)
(*   SpecJobs  several /process jobs running concurrently through          *)
(*             processVideo -> VideoGenerator.generateVideo -> renderer,   *)
(*             sharing the clock (Date.now), the output directory and the  *)
(*             machine's encoder subprocesses.                             *)
(*                                                                         *)
(* Durations are JavaScript numbers in the source; they are modelled as    *)
(* exact rationals [n |-> numerator, d |-> denominator] in lowest terms.   *)
(***************************************************************************)
EXTENDS Integers, Sequences, FiniteSets, TLC

\* ------------------------------------------------------------------------
\* Bounds of the model
\* ------------------------------------------------------------------------
MaxImages == 10

MaxJobs == 2

MaxClock == 1

\* ------------------------------------------------------------------------
\* Rational arithmetic (JavaScript number arithmetic, kept exact)
\* ------------------------------------------------------------------------
Abs(x) == IF x < 0 THEN -x ELSE x

RECURSIVE GCD(_, _)
GCD(a, b) == IF b = 0 THEN a ELSE GCD(b, a % b)

Q(num, den) ==
  LET g == GCD(Abs(num), den)
  IN  IF num = 0 THEN [n |-> 0, d |-> 1] ELSE [n |-> num \div g, d |-> den \div g]

QAdd(a, b) == Q(a.n * b.d + b.n * a.d, a.d * b.d)

QSub(a, b) == Q(a.n * b.d - b.n * a.d, a.d * b.d)

QMulInt(a, k) == Q(a.n * k, a.d)

QDivInt(a, k) == Q(a.n, a.d * k)

QLe(a, b) == a.n * b.d <= b.n * a.d

QLt(a, b) == a.n * b.d < b.n * a.d

QMin(a, b) == IF QLe(a, b) THEN a ELSE b

QAbs(a) == [n |-> Abs(a.n), d |-> a.d]

QZero == Q(0, 1)

QMax(a, b) == IF QLe(a, b) THEN b ELSE a

QMul(a, b) == Q(a.n * b.n, a.d * b.d)

QDiv(a, b) == Q(a.n * b.d, a.d * b.n)

\* Math.ceil and Math.round (halves round up)
QCeil(a) == -((-a.n) \div a.d)

QRound(a) == (2 * a.n + a.d) \div (2 * a.d)

RECURSIVE QSum(_)
QSum(s) == IF s = <<>> THEN QZero ELSE QAdd(Head(s), QSum(Tail(s)))

Max(a, b) == IF a >= b THEN a ELSE b

Min(a, b) == IF a <= b THEN a ELSE b

\* ------------------------------------------------------------------------
\* Program constants
\* ------------------------------------------------------------------------
BATCH_THRESHOLD == 6

CHUNK_SIZE == 3

OVERLAP == 1

MAX_CONCURRENT_JOBS == 2

minImages == 3

\* the default of a transition whose duration is missing or 0 (falsy)
DefaultTransitionDuration == Q(1, 2)

\* the 0.1s tolerance of the duration contract
Tolerance == Q(1, 10)

\* ------------------------------------------------------------------------
\* Inputs of a render request
\* ------------------------------------------------------------------------
\* an absent options.transition
Undefined == [type |-> "undefined"]

\* an absent path
NoPath == [dir |-> "", kind |-> "none", platform |-> "", key |-> 0]

\* target durations in seconds
Durations == {Q(2, 1), Q(15, 1), Q(30, 1)}

\* options.transition: absent, or a transition with a duration (0 is falsy)
Transitions == {Undefined} \cup {[type |-> "fade", duration |-> q] : q \in {Q(0, 1), Q(1, 4), Q(1, 2)}}

ImageCounts == 1..MaxImages

\* the ordered image list of a request: image paths are named 1..n
ImageList(n) == [i \in 1..n |-> i]

\* ------------------------------------------------------------------------
\* FFmpegRenderer: pure computations
\* ------------------------------------------------------------------------

\* buildCommandChunked / buildFilterComplex: `transition = { type: 'fade', duration: 0.5 }`
TransitionOrDefault(transition) ==
  IF transition = Undefined THEN [type |-> "fade", duration |-> DefaultTransitionDuration]
  ELSE transition

\* `transition.duration || 0.5`: a duration of 0 is falsy and replaced
TransitionDuration(transition) ==
  LET t == TransitionOrDefault(transition)
  IN  IF t.duration = QZero THEN DefaultTransitionDuration ELSE t.duration

\* buildCommand: the transition of the single-pass path depends on the image count only
AdjustedTransition(transition, n) ==
  [type |-> TransitionOrDefault(transition).type,
   duration |-> IF n > 8 THEN Q(1, 4) ELSE IF n > 5 THEN Q(2, 5) ELSE Q(3, 5)]

ActualImageDuration_NoCompensation(numSegments, duration, transitionDuration) ==
  QDivInt(duration, numSegments)

\* buildFilterComplex: duration compensation
ActualImageDuration(numSegments, duration, transitionDuration) ==
  LET transitionCount == Max(0, numSegments - 1)
      totalTransitionTime == QMulInt(transitionDuration, transitionCount)
      adjustedDuration == QAdd(duration, totalTransitionTime)
  IN  QDivInt(adjustedDuration, numSegments)

XfadeOffset_Cumulative(i, actualImageDuration, transitionDuration) ==
  QMulInt(QSub(actualImageDuration, transitionDuration), i)

\* buildFilterComplex: offset of the i-th xfade join
XfadeOffset(i, actualImageDuration, transitionDuration) ==
  QSub(QMulInt(actualImageDuration, i), transitionDuration)

\* the xfade filter: the joined stream lasts the offset plus the stream joined in
XfadeOut(offset, second) == QAdd(offset, second)

\* duration of [base_video]: a single clip, or the xfade chain of the clips
RECURSIVE ChainDuration(_, _, _)
ChainDuration(i, actualImageDuration, transitionDuration) ==
  IF i <= 1 THEN actualImageDuration
  ELSE XfadeOut(XfadeOffset(i - 1, actualImageDuration, transitionDuration), actualImageDuration)

\* buildFilterComplex / addAudioAndOverlays: `enable='between(t,reviewStart,reviewEnd)'`
\* with reviewStart = 5 and reviewEnd = Math.min(20, duration * 0.3)
ReviewWindow(duration) ==
  [start |-> Q(5, 1), end |-> QMin(Q(20, 1), QMul(duration, Q(3, 10)))]

\* buildFilterComplex: the filter graph, as data
\*   logoIndex / reviewIndex / voiceIndex / musicIndex are defined iff the input was added
BuildFilterComplex(numSegments, duration, transition, logo, review, voice, music) ==
  LET td == TransitionDuration(transition)
      aid == ActualImageDuration(numSegments, duration, td)
  IN  [numSegments |-> numSegments,
       duration |-> duration,
       transitionDuration |-> td,
       actualImageDuration |-> aid,
       offsets |-> [i \in 1..(numSegments - 1) |-> XfadeOffset(i, aid, td)],
       overlays |-> (IF logo THEN {"logo"} ELSE {}) \cup (IF review THEN {"review"} ELSE {}),
       reviewWindow |-> IF review THEN ReviewWindow(duration) ELSE Undefined,
       audio |-> (IF voice THEN {"voiceOver"} ELSE {}) \cup (IF music THEN {"music"} ELSE {})]

\* a render of a filter graph: `trim=0:duration` and `-t duration` cut the chain
RenderedDuration(graph) ==
  QMin(ChainDuration(graph.numSegments, graph.actualImageDuration, graph.transitionDuration),
       graph.duration)

ChunkImageCount_NoCap(remaining) == remaining

\* buildCommandChunked: number of new images taken by a chunk
ChunkImageCount(remaining) == Min(CHUNK_SIZE, remaining)

OverlapImages_None(imgs, idx, isFirstChunk) == <<>>

\* buildCommandChunked: the overlap image(s) put in front of a non-first chunk
OverlapImages(imgs, idx, isFirstChunk) ==
  IF ~isFirstChunk /\ idx > 0 THEN <<imgs[idx - OVERLAP + 1]>> ELSE <<>>

\* buildCommandChunked: `while (idx < images.length)`, idx counted from 0
RECURSIVE ChunkLoop(_, _, _)
ChunkLoop(imgs, idx, acc) ==
  IF idx >= Len(imgs) THEN acc
  ELSE LET isFirstChunk == (Len(acc) = 0)
           overlapPart == OverlapImages(imgs, idx, isFirstChunk)
           count == ChunkImageCount(Len(imgs) - idx)
           chunkImages == overlapPart \o [i \in 1..count |-> imgs[idx + i]]
       IN  ChunkLoop(imgs, idx + count,
                     Append(acc, [images |-> chunkImages, startIdx |-> idx,
                                  hasOverlap |-> ~isFirstChunk]))

ComputeChunks(imgs) == ChunkLoop(imgs, 0, <<>>)

\* buildCommandChunked: `(duration * chunkImages.length) / images.length`
ChunkDuration(duration, chunkLen, total) ==
  QDivInt(QMulInt(duration, chunkLen), total)

\* concatenateChunksWithTransitions: duration of the overlap image in the producing chunk
OverlapDuration(durs, chs, i) == QDivInt(durs[i - 1], Len(chs[i - 1].images))

\* concatenateChunksWithTransitions: the tracked outputDuration after joining chunks 1..i
RECURSIVE TrackedOutputDuration(_, _, _)
TrackedOutputDuration(durs, td, i) ==
  IF i = 1 THEN durs[1]
  ELSE QSub(QAdd(TrackedOutputDuration(durs, td, i - 1), durs[i]), td)

\* concatenateChunksWithTransitions: xfade offset of the join of chunk i-1 and chunk i
ConcatOffset(durs, chs, td, i) ==
  QSub(QSub(TrackedOutputDuration(durs, td, i - 1), OverlapDuration(durs, chs, i)), td)

\* duration of the stitched file: the xfade chain over the chunk files (no -t on this run)
StitchedDuration(durs, chs, td, fileDurs) ==
  IF Len(durs) = 1 THEN fileDurs[1]
  ELSE XfadeOut(ConcatOffset(durs, chs, td, Len(durs)), fileDurs[Len(durs)])

\* ------------------------------------------------------------------------
\* Paths
\* ------------------------------------------------------------------------

\* VideoGenerator.renderVideo: path.join(this.outputDir, `${platform}_${Date.now()}.mp4`)
OutputPath(outputDir, platform, now) ==
  [dir |-> outputDir, kind |-> "output", platform |-> platform, key |-> now]

\* buildCommandChunked: path.join(path.dirname(outputPath), `chunk_${chunkIndex}.mp4`)
ChunkPath(outputPath, index) ==
  [dir |-> outputPath.dir, kind |-> "chunk", platform |-> "", key |-> index]

\* concatenateChunksWithTransitions: `concatenated_${outputBasename}.mp4` next to the output
TempConcatenated(outputPath) ==
  [dir |-> outputPath.dir, kind |-> "concatenated", platform |-> outputPath.platform,
   key |-> outputPath.key]

\* ------------------------------------------------------------------------
\* State of one render request (FFmpegRenderer.generateVideo)
\* ------------------------------------------------------------------------
VARIABLES
  pc,              \* position of the request in the renderer
  options,         \* the options of generateVideo
  chunks,          \* buildCommandChunked: chunks
  chunkPaths,      \* buildCommandChunked: chunkPaths
  chunkDurations,  \* buildCommandChunked: chunkDurations
  chunkIndex,      \* buildCommandChunked: loop counter of Step 1
  outputDuration,  \* concatenateChunksWithTransitions: tracked outputDuration
  currentPath,     \* the video handed to addAudioAndOverlays (inputPath)
  command,         \* the fluent-ffmpeg command returned by buildCommand
  running,         \* the encoder subprocess in flight
  renders,         \* every encoder subprocess spawned so far, in order
  files            \* media files on disk: path -> duration

renderVars == <<pc, options, chunks, chunkPaths, chunkDurations, chunkIndex, outputDuration,
                currentPath, command, running, renders, files>>

NoRender == [kind |-> "none"]

NoOptions == [images |-> <<>>]

RenderOutputPath == OutputPath("output", "youtube", 0)

\* the options a caller can hand to generateVideo
RenderOptions ==
  [images : {ImageList(n) : n \in ImageCounts},
   duration : Durations,
   transition : Transitions,
   voiceOver : BOOLEAN, backgroundMusic : BOOLEAN, logo : BOOLEAN, reviewImage : BOOLEAN,
   outputPath : {RenderOutputPath}]

InitRender ==
  /\ pc = "idle"
  /\ options = NoOptions
  /\ chunks = <<>>
  /\ chunkPaths = <<>>
  /\ chunkDurations = <<>>
  /\ chunkIndex = 0
  /\ outputDuration = QZero
  /\ currentPath = NoPath
  /\ command = NoRender
  /\ running = NoRender
  /\ renders = <<>>
  /\ files = [q \in {} |-> QZero]

WriteFile(fs, path, dur) == [q \in (DOMAIN fs) \cup {path} |-> IF q = path THEN dur ELSE fs[q]]

Unlink(fs, paths) == [q \in (DOMAIN fs) \ paths |-> fs[q]]

Exists(fs, path) == path \in DOMAIN fs

\* generateVideo(options): entry point
generateVideo(o) ==
  /\ pc = "idle"
  /\ pc' = "buildCommand"
  /\ options' = o
  /\ UNCHANGED <<chunks, chunkPaths, chunkDurations, chunkIndex, outputDuration, currentPath,
                 command, running, renders, files>>

\* buildCommand, images.length <= BATCH_THRESHOLD: one filter graph with everything in it
buildCommand ==
  /\ pc = "buildCommand"
  /\ Len(options.images) <= BATCH_THRESHOLD
  /\ command' = [kind |-> "single",
                 graph |-> BuildFilterComplex(Len(options.images), options.duration,
                              AdjustedTransition(options.transition, Len(options.images)),
                              options.logo, options.reviewImage,
                              options.voiceOver, options.backgroundMusic)]
  /\ pc' = "run"
  /\ UNCHANGED <<options, chunks, chunkPaths, chunkDurations, chunkIndex, outputDuration,
                 currentPath, running, renders, files>>

\* buildCommand -> buildCommandChunked, images.length > BATCH_THRESHOLD: compute the chunks
buildCommandChunked ==
  /\ pc = "buildCommand"
  /\ Len(options.images) > BATCH_THRESHOLD
  /\ chunks' = ComputeChunks(options.images)
  /\ chunkIndex' = 0
  /\ pc' = "renderChunks"
  /\ UNCHANGED <<options, chunkPaths, chunkDurations, outputDuration, currentPath, command,
                 running, renders, files>>

ChunkGraph_WithOverlays(chunkImages, chunkDuration, transition) ==
  BuildFilterComplex(Len(chunkImages), chunkDuration, transition, TRUE, TRUE, TRUE, TRUE)

\* renderChunk: the filter graph of a chunk has images and a transition only
ChunkGraph(chunkImages, chunkDuration, transition) ==
  BuildFilterComplex(Len(chunkImages), chunkDuration, transition, FALSE, FALSE, FALSE, FALSE)

\* Step 1 of buildCommandChunked, one iteration up to the spawn of the chunk's encoder
renderChunkStart ==
  /\ pc = "renderChunks"
  /\ running = NoRender
  /\ chunkIndex < Len(chunks)
  /\ LET chunk == chunks[chunkIndex + 1]
         chunkDuration == ChunkDuration(options.duration, Len(chunk.images), Len(options.images))
         chunkPath == ChunkPath(options.outputPath, chunkIndex)
         run == [kind |-> "chunk", index |-> chunkIndex, output |-> chunkPath,
                 graph |-> ChunkGraph(chunk.images, chunkDuration,
                                      TransitionOrDefault(options.transition))]
     IN  /\ chunkPaths' = Append(chunkPaths, chunkPath)
         /\ chunkDurations' = Append(chunkDurations, chunkDuration)
         /\ running' = run
         /\ renders' = Append(renders, run)
  /\ UNCHANGED <<pc, options, chunks, chunkIndex, outputDuration, currentPath, command, files>>

\* renderChunk resolves: the chunk file is on disk, the loop goes on
renderChunkEnd ==
  /\ running.kind = "chunk"
  /\ files' = WriteFile(files, running.output, RenderedDuration(running.graph))
  /\ chunkIndex' = chunkIndex + 1
  /\ running' = NoRender
  /\ UNCHANGED <<pc, options, chunks, chunkPaths, chunkDurations, outputDuration, currentPath,
                 command, renders>>

renderChunkError_Continue ==
  /\ running.kind = "chunk"
  /\ running' = NoRender
  /\ chunkIndex' = chunkIndex + 1
  /\ UNCHANGED <<pc, options, chunks, chunkPaths, chunkDurations, outputDuration,
                 currentPath, command, renders, files>>

\* renderChunk rejects: the error leaves buildCommandChunked and generateVideo
renderChunkError ==
  /\ running.kind = "chunk"
  /\ running' = NoRender
  /\ pc' = "rejected"
  /\ UNCHANGED <<options, chunks, chunkPaths, chunkDurations, chunkIndex, outputDuration,
                 currentPath, command, renders, files>>

AllChunksRendered_FirstOnly == chunkIndex >= 1 /\ running = NoRender

\* exit of the Step 1 loop: every renderChunk was awaited
AllChunksRendered == chunkIndex = Len(chunks) /\ running = NoRender

\* Step 2 of buildCommandChunked: concatenateChunksWithTransitions up to the spawn of the
\* xfade concat. One chunk: straight to addAudioAndOverlays. A chunk file missing: throw.
concatenateChunksWithTransitions ==
  /\ pc = "renderChunks"
  /\ AllChunksRendered
  /\ LET td == TransitionDuration(options.transition)
         n == Len(chunkPaths)
         run == [kind |-> "concat", inputs |-> chunkPaths,
                 output |-> TempConcatenated(options.outputPath),
                 transitionDuration |-> td,
                 offsets |-> [i \in 1..(n - 1) |->
                                ConcatOffset(chunkDurations, chunks, td, i + 1)]]
     IN  IF n = 1
         THEN /\ pc' = "addAudioAndOverlays"
              /\ currentPath' = chunkPaths[1]
              /\ UNCHANGED <<outputDuration, running, renders>>
         ELSE IF \E i \in 1..n : ~Exists(files, chunkPaths[i])
         THEN /\ pc' = "rejected"
              /\ UNCHANGED <<currentPath, outputDuration, running, renders>>
         ELSE /\ pc' = "concatenate"
              /\ outputDuration' = TrackedOutputDuration(chunkDurations, td, n)
              /\ running' = run
              /\ renders' = Append(renders, run)
              /\ UNCHANGED currentPath
  /\ UNCHANGED <<options, chunks, chunkPaths, chunkDurations, chunkIndex, command, files>>

\* the xfade concat ends: the stitched temporary file is on disk
concatenateEnd ==
  /\ running.kind = "concat"
  /\ \A i \in 1..Len(running.inputs) : Exists(files, running.inputs[i])
  /\ files' = WriteFile(files, running.output,
                        StitchedDuration(chunkDurations, chunks, running.transitionDuration,
                                         [i \in 1..Len(chunkPaths) |-> files[chunkPaths[i]]]))
  /\ currentPath' = running.output
  /\ running' = NoRender
  /\ pc' = "addAudioAndOverlays"
  /\ UNCHANGED <<options, chunks, chunkPaths, chunkDurations, chunkIndex, outputDuration,
                 command, renders>>

\* the xfade concat fails: reject
concatenateError ==
  /\ running.kind = "concat"
  /\ running' = NoRender
  /\ pc' = "rejected"
  /\ UNCHANGED <<options, chunks, chunkPaths, chunkDurations, chunkIndex, outputDuration,
                 currentPath, command, renders, files>>

\* addAudioAndOverlays up to the spawn: audio mix, logo and review card on the stitched video
addAudioAndOverlays ==
  /\ pc = "addAudioAndOverlays"
  /\ running = NoRender
  /\ LET run == [kind |-> "overlay", input |-> currentPath, output |-> options.outputPath,
                 duration |-> options.duration,
                 overlays |-> (IF options.logo THEN {"logo"} ELSE {})
                              \cup (IF options.reviewImage THEN {"review"} ELSE {}),
                 reviewWindow |-> IF options.reviewImage THEN ReviewWindow(options.duration)
                                  ELSE Undefined,
                 audio |-> (IF options.voiceOver THEN {"voiceOver"} ELSE {})
                           \cup (IF options.backgroundMusic THEN {"music"} ELSE {})]
     IN  /\ running' = run
         /\ renders' = Append(renders, run)
  /\ UNCHANGED <<pc, options, chunks, chunkPaths, chunkDurations, chunkIndex, outputDuration,
                 currentPath, command, files>>

\* addAudioAndOverlays resolves (`-t duration` cuts the video); the stitched temporary
\* file is unlinked unless it is the first chunk
addAudioAndOverlaysEnd ==
  /\ running.kind = "overlay"
  /\ Exists(files, running.input)
  /\ LET written == WriteFile(files, running.output,
                              QMin(files[running.input], running.duration))
     IN  files' = IF currentPath # chunkPaths[1] THEN Unlink(written, {currentPath})
                  ELSE written
  /\ running' = NoRender
  /\ pc' = "cleanupChunks"
  /\ UNCHANGED <<options, chunks, chunkPaths, chunkDurations, chunkIndex, outputDuration,
                 currentPath, command, renders>>

\* addAudioAndOverlays rejects
addAudioAndOverlaysError ==
  /\ running.kind = "overlay"
  /\ running' = NoRender
  /\ pc' = "rejected"
  /\ UNCHANGED <<options, chunks, chunkPaths, chunkDurations, chunkIndex, outputDuration,
                 currentPath, command, renders, files>>

\* end of buildCommandChunked: unlink the chunk files, return the dummy command
cleanupChunks ==
  /\ pc = "cleanupChunks"
  /\ files' = Unlink(files, {chunkPaths[i] : i \in 1..Len(chunkPaths)})
  /\ command' = [kind |-> "dummy", input |-> options.outputPath]
  /\ pc' = "run"
  /\ UNCHANGED <<options, chunks, chunkPaths, chunkDurations, chunkIndex, outputDuration,
                 currentPath, running, renders>>

\* generateVideo: command.run()
run ==
  /\ pc = "run"
  /\ running = NoRender
  /\ running' = command
  /\ renders' = Append(renders, command)
  /\ UNCHANGED <<pc, options, chunks, chunkPaths, chunkDurations, chunkIndex, outputDuration,
                 currentPath, command, files>>

\* generateVideo: 'end' -> resolve(outputPath); the dummy command writes to /dev/null
runEnd ==
  /\ pc = "run"
  /\ running.kind \in {"single", "dummy"}
  /\ files' = IF running.kind = "single"
              THEN WriteFile(files, options.outputPath, RenderedDuration(running.graph))
              ELSE files
  /\ running' = NoRender
  /\ pc' = "resolved"
  /\ UNCHANGED <<options, chunks, chunkPaths, chunkDurations, chunkIndex, outputDuration,
                 currentPath, command, renders>>

\* generateVideo: 'error' -> reject(err)
runError ==
  /\ pc = "run"
  /\ running.kind \in {"single", "dummy"}
  /\ running' = NoRender
  /\ pc' = "rejected"
  /\ UNCHANGED <<options, chunks, chunkPaths, chunkDurations, chunkIndex, outputDuration,
                 currentPath, command, renders, files>>

NextRender ==
  \/ \E o \in RenderOptions : generateVideo(o)
  \/ buildCommand
  \/ buildCommandChunked
  \/ renderChunkStart
  \/ renderChunkEnd
  \/ renderChunkError
  \/ concatenateChunksWithTransitions
  \/ concatenateEnd
  \/ concatenateError
  \/ addAudioAndOverlays
  \/ addAudioAndOverlaysEnd
  \/ addAudioAndOverlaysError
  \/ cleanupChunks
  \/ run
  \/ runEnd
  \/ runError

\* ------------------------------------------------------------------------
\* Concurrent jobs: POST /process -> processVideo -> VideoGenerator.generateVideo
\* -> FFmpegRenderer.generateVideo, several jobs in flight in one Node process
\* ------------------------------------------------------------------------
VARIABLES
  now,            \* Date.now(), in milliseconds
  jpc,            \* position of each job
  jimages,        \* assets.images.length of each job
  workDir,        \* VideoGenerator.generateVideo: workDir of each job
  jobOutputPath,  \* VideoGenerator.renderVideo: outputPath of each job
  jchunkIndex,    \* buildCommandChunked: chunkIndex of each job
  jerror,         \* the error thrown inside the job's try block, if any
  encoder,        \* the encoder subprocess each job has in flight
  dirs,           \* working directories on disk
  disk            \* media files on disk: path -> the job and chunk that wrote it

jobVars == <<now, jpc, jimages, workDir, jobOutputPath, jchunkIndex, jerror, encoder, dirs, disk>>

\* job slots of the process: one more job than the concurrency cap can be accepted
JobSlots == 1..(MAX_CONCURRENT_JOBS + 1)

\* the jobs of the detailed interleaving model
Jobs == 1..MaxJobs

\* image counts of the accepted jobs: single pass and batched
JobImageCounts == {minImages, BATCH_THRESHOLD + 1}

\* VideoGenerator.constructor / processVideo: tempDir and outputDir are per process
TempDir == "temp"

OutputDir == "temp/output"

\* VideoGenerator.generateVideo: path.join(this.tempDir, Date.now().toString())
WorkDirPath(tempDir, sessionId) ==
  [dir |-> tempDir, kind |-> "workDir", platform |-> "", key |-> sessionId]

NoOwner == [job |-> 0, index |-> 0]

InitJobs ==
  /\ now = 0
  /\ jpc = [j \in JobSlots |-> "idle"]
  /\ jimages = [j \in JobSlots |-> 0]
  /\ workDir = [j \in JobSlots |-> NoPath]
  /\ jobOutputPath = [j \in JobSlots |-> NoPath]
  /\ jchunkIndex = [j \in JobSlots |-> 0]
  /\ jerror = [j \in JobSlots |-> FALSE]
  /\ encoder = [j \in JobSlots |-> NoRender]
  /\ dirs = {}
  /\ disk = [q \in {} |-> NoOwner]

\* buildCommandChunked: numChunks of a job
NumChunks(n) == Len(ComputeChunks(ImageList(n)))

\* buildCommandChunked: chunkPaths of a job that rendered `count` chunks
JobChunkPaths(j, count) == {ChunkPath(jobOutputPath[j], k) : k \in 0..(count - 1)}

\* time passes
Tick ==
  /\ now < MaxClock
  /\ now' = now + 1
  /\ UNCHANGED <<jpc, jimages, workDir, jobOutputPath, jchunkIndex, jerror, encoder, dirs, disk>>

\* POST /process: acknowledge, then processVideo in the background (fire and forget)
process(j, n) ==
  /\ jpc[j] = "idle"
  /\ jpc' = [jpc EXCEPT ![j] = "processVideo"]
  /\ jimages' = [jimages EXCEPT ![j] = n]
  /\ UNCHANGED <<now, workDir, jobOutputPath, jchunkIndex, jerror, encoder, dirs, disk>>

\* VideoGenerator.generateVideo up to `await fs.mkdir(workDir)`
vgGenerateVideo(j) ==
  /\ jpc[j] = "processVideo"
  /\ IF jimages[j] < minImages
     THEN /\ jpc' = [jpc EXCEPT ![j] = "failed"]
          /\ jerror' = [jerror EXCEPT ![j] = TRUE]
          /\ UNCHANGED <<workDir, dirs>>
     ELSE /\ jpc' = [jpc EXCEPT ![j] = "renderVideo"]
          /\ workDir' = [workDir EXCEPT ![j] = WorkDirPath(TempDir, now)]
          /\ dirs' = dirs \cup {WorkDirPath(TempDir, now)}
          /\ UNCHANGED jerror
  /\ UNCHANGED <<now, jimages, jobOutputPath, jchunkIndex, encoder, disk>>

\* VideoGenerator.renderVideo -> FFmpegRenderer.generateVideo -> buildCommand, up to the
\* first encoder run: single pass or the chunks of buildCommandChunked
vgRenderVideo(j) ==
  /\ jpc[j] = "renderVideo"
  /\ jobOutputPath' = [jobOutputPath EXCEPT ![j] = OutputPath(OutputDir, "youtube", now)]
  /\ jchunkIndex' = [jchunkIndex EXCEPT ![j] = 0]
  /\ jpc' = [jpc EXCEPT ![j] = IF jimages[j] > BATCH_THRESHOLD THEN "renderChunks" ELSE "run"]
  /\ UNCHANGED <<now, jimages, workDir, jerror, encoder, dirs, disk>>

\* the error of an encoder run leaves the renderer; generateVideo's finally block is next
Throw(j) ==
  /\ jpc' = [jpc EXCEPT ![j] = "finally"]
  /\ jerror' = [jerror EXCEPT ![j] = TRUE]

\* buildCommandChunked Step 1: spawn the encoder of the next chunk
jobRenderChunkStart(j) ==
  /\ jpc[j] = "renderChunks"
  /\ encoder[j] = NoRender
  /\ jchunkIndex[j] < NumChunks(jimages[j])
  /\ encoder' = [encoder EXCEPT ![j] = [kind |-> "chunk", index |-> jchunkIndex[j],
                                        output |-> ChunkPath(jobOutputPath[j], jchunkIndex[j])]]
  /\ UNCHANGED <<now, jpc, jimages, workDir, jobOutputPath, jchunkIndex, jerror, dirs, disk>>

\* renderChunk resolves: the chunk file is written
jobRenderChunkEnd(j) ==
  /\ encoder[j].kind = "chunk"
  /\ disk' = WriteFile(disk, encoder[j].output, [job |-> j, index |-> encoder[j].index])
  /\ jchunkIndex' = [jchunkIndex EXCEPT ![j] = @ + 1]
  /\ encoder' = [encoder EXCEPT ![j] = NoRender]
  /\ UNCHANGED <<now, jpc, jimages, workDir, jobOutputPath, jerror, dirs>>

\* renderChunk rejects
jobRenderChunkError(j) ==
  /\ encoder[j].kind = "chunk"
  /\ encoder' = [encoder EXCEPT ![j] = NoRender]
  /\ Throw(j)
  /\ UNCHANGED <<now, jimages, workDir, jobOutputPath, jchunkIndex, dirs, disk>>

\* concatenateChunksWithTransitions: verify the chunk files, spawn the xfade concat
jobConcatenate(j) ==
  /\ jpc[j] = "renderChunks"
  /\ encoder[j] = NoRender
  /\ jchunkIndex[j] = NumChunks(jimages[j])
  /\ IF \E q \in JobChunkPaths(j, jchunkIndex[j]) : ~Exists(disk, q)
     THEN /\ Throw(j)
          /\ UNCHANGED encoder
     ELSE /\ jpc' = [jpc EXCEPT ![j] = "concatenate"]
          /\ encoder' = [encoder EXCEPT ![j] =
                           [kind |-> "concat", index |-> 0,
                            output |-> TempConcatenated(jobOutputPath[j])]]
          /\ UNCHANGED jerror
  /\ UNCHANGED <<now, jimages, workDir, jobOutputPath, jchunkIndex, dirs, disk>>

\* the xfade concat ends: it read the chunk files and wrote the stitched temporary file
jobConcatenateEnd(j) ==
  /\ encoder[j].kind = "concat"
  /\ \A q \in JobChunkPaths(j, jchunkIndex[j]) : Exists(disk, q)
  /\ disk' = WriteFile(disk, encoder[j].output, [job |-> j, index |-> 0])
  /\ encoder' = [encoder EXCEPT ![j] = NoRender]
  /\ jpc' = [jpc EXCEPT ![j] = "addAudioAndOverlays"]
  /\ UNCHANGED <<now, jimages, workDir, jobOutputPath, jchunkIndex, jerror, dirs>>

\* the xfade concat fails
jobConcatenateError(j) ==
  /\ encoder[j].kind = "concat"
  /\ encoder' = [encoder EXCEPT ![j] = NoRender]
  /\ Throw(j)
  /\ UNCHANGED <<now, jimages, workDir, jobOutputPath, jchunkIndex, dirs, disk>>

\* addAudioAndOverlays: spawn the audio/overlay pass on the stitched file
jobAddAudioAndOverlays(j) ==
  /\ jpc[j] = "addAudioAndOverlays"
  /\ encoder[j] = NoRender
  /\ encoder' = [encoder EXCEPT ![j] = [kind |-> "overlay", index |-> 0,
                                        output |-> jobOutputPath[j]]]
  /\ UNCHANGED <<now, jpc, jimages, workDir, jobOutputPath, jchunkIndex, jerror, dirs, disk>>

\* addAudioAndOverlays resolves: output written, stitched temporary file unlinked
jobAddAudioAndOverlaysEnd(j) ==
  /\ encoder[j].kind = "overlay"
  /\ Exists(disk, TempConcatenated(jobOutputPath[j]))
  /\ disk' = Unlink(WriteFile(disk, encoder[j].output, [job |-> j, index |-> 0]),
                    {TempConcatenated(jobOutputPath[j])})
  /\ encoder' = [encoder EXCEPT ![j] = NoRender]
  /\ jpc' = [jpc EXCEPT ![j] = "cleanupChunks"]
  /\ UNCHANGED <<now, jimages, workDir, jobOutputPath, jchunkIndex, jerror, dirs>>

\* addAudioAndOverlays rejects
jobAddAudioAndOverlaysError(j) ==
  /\ encoder[j].kind = "overlay"
  /\ encoder' = [encoder EXCEPT ![j] = NoRender]
  /\ Throw(j)
  /\ UNCHANGED <<now, jimages, workDir, jobOutputPath, jchunkIndex, dirs, disk>>

\* end of buildCommandChunked: unlink every path of chunkPaths
jobCleanupChunks(j) ==
  /\ jpc[j] = "cleanupChunks"
  /\ disk' = Unlink(disk, JobChunkPaths(j, jchunkIndex[j]))
  /\ jpc' = [jpc EXCEPT ![j] = "run"]
  /\ UNCHANGED <<now, jimages, workDir, jobOutputPath, jchunkIndex, jerror, encoder, dirs>>

\* FFmpegRenderer.generateVideo: run the command (the render, or the dummy after chunks)
jobRun(j) ==
  /\ jpc[j] = "run"
  /\ encoder[j] = NoRender
  /\ encoder' = [encoder EXCEPT ![j] =
                   [kind |-> IF jimages[j] > BATCH_THRESHOLD THEN "dummy" ELSE "single",
                    index |-> 0, output |-> jobOutputPath[j]]]
  /\ UNCHANGED <<now, jpc, jimages, workDir, jobOutputPath, jchunkIndex, jerror, dirs, disk>>

\* the command ends: resolve(outputPath)
jobRunEnd(j) ==
  /\ jpc[j] = "run"
  /\ encoder[j].kind \in {"single", "dummy"}
  /\ disk' = IF encoder[j].kind = "single"
             THEN WriteFile(disk, encoder[j].output, [job |-> j, index |-> 0])
             ELSE disk
  /\ encoder' = [encoder EXCEPT ![j] = NoRender]
  /\ jpc' = [jpc EXCEPT ![j] = "finally"]
  /\ UNCHANGED <<now, jimages, workDir, jobOutputPath, jchunkIndex, jerror, dirs>>

\* the command fails: reject(err)
jobRunError(j) ==
  /\ jpc[j] = "run"
  /\ encoder[j].kind \in {"single", "dummy"}
  /\ encoder' = [encoder EXCEPT ![j] = NoRender]
  /\ Throw(j)
  /\ UNCHANGED <<now, jimages, workDir, jobOutputPath, jchunkIndex, dirs, disk>>

\* VideoGenerator.generateVideo: finally { fs.rm(workDir) } (processVideo never sets
\* keepTemp), then the path is returned or the error rethrown
vgFinally(j) ==
  /\ jpc[j] = "finally"
  /\ dirs' = dirs \ {workDir[j]}
  /\ workDir' = [workDir EXCEPT ![j] = NoPath]
  /\ jpc' = [jpc EXCEPT ![j] = IF jerror[j] THEN "failed" ELSE "generated"]
  /\ UNCHANGED <<now, jimages, jobOutputPath, jchunkIndex, jerror, encoder, disk>>

JobStep(j) ==
  \/ \E n \in JobImageCounts : process(j, n)
  \/ vgGenerateVideo(j)
  \/ vgRenderVideo(j)
  \/ jobRenderChunkStart(j)
  \/ jobRenderChunkEnd(j)
  \/ jobRenderChunkError(j)
  \/ jobConcatenate(j)
  \/ jobConcatenateEnd(j)
  \/ jobConcatenateError(j)
  \/ jobAddAudioAndOverlays(j)
  \/ jobAddAudioAndOverlaysEnd(j)
  \/ jobAddAudioAndOverlaysError(j)
  \/ jobCleanupChunks(j)
  \/ jobRun(j)
  \/ jobRunEnd(j)
  \/ jobRunError(j)
  \/ vgFinally(j)

NextJobs ==
  \/ Tick
  \/ \E j \in Jobs : JobStep(j)

\* the steps of a job whose request is rendered in a single pass
SinglePassStep(j) ==
  \/ process(j, minImages)
  \/ vgGenerateVideo(j)
  \/ vgRenderVideo(j)
  \/ jobRun(j)
  \/ jobRunEnd(j)
  \/ jobRunError(j)
  \/ vgFinally(j)

\* every job slot of the process takes a single-pass request
NextCap ==
  \/ Tick
  \/ \E j \in JobSlots : SinglePassStep(j)

\* ------------------------------------------------------------------------
\* One request through the service: POST /process (processVideo), POST /enhance
\* (processEnhancedVideo) or a direct call of VideoGenerator.generateVideo
\* ------------------------------------------------------------------------
VARIABLES
  request,   \* the request being served
  rpc,       \* position of the request
  status,    \* prisma video.status
  rdirs,     \* directories the request has on disk
  rfiles,    \* files the request has on disk
  spawned,   \* kinds of subprocesses spawned so far
  rencoder,  \* the encoder subprocess of the request: none, running or hung
  rerror,    \* class of the error thrown, "none" if none
  rassets,   \* the assets prepareAssets returned
  metadata   \* getVideoMetadata: the probed duration written to the database

reqVars == <<request, rpc, status, rdirs, rfiles, spawned, rencoder, rerror, rassets, metadata>>

\* PlatformTemplates.templates: keys of the catalog used by the modelled requests
Catalog == {"youtube", "tiktok"}

\* what happens to the first media item of the request in prepareAssets
AssetOutcomes == {"downloaded", "urlFails", "r2Fails", "noKey"}

NoRequest == [endpoint |-> "none"]

NoAssets == [images |-> 0, placeholder |-> FALSE, missing |-> FALSE]

\* image counts of the modelled requests
RequestImageCounts == {0, minImages - 1, minImages, BATCH_THRESHOLD + 1}

Request(endpoints, assetOutcomes, keepTemps) ==
  [endpoint : endpoints,
   platform : Catalog \cup {"unknown"},
   images : RequestImageCounts,
   asset : assetOutcomes,
   keepTemp : keepTemps,
   targetDuration : {Q(2, 1), Q(15, 1)}]

\* POST /process: processVideo builds the generator options without keepTemp
ProcessRequests == Request({"process"}, AssetOutcomes, {FALSE})

\* a direct call of VideoGenerator.generateVideo: the assets are local files
GenerateRequests == Request({"generate"}, {"downloaded"}, BOOLEAN)

\* POST /enhance: settings.keepTemp reaches EnhancedVideoProcessor
EnhanceRequests == Request({"enhance"}, AssetOutcomes, BOOLEAN)

\* directories, named by the code that builds their path
AssetsDir(r) == IF r.endpoint = "enhance" THEN "temp/enhance-id/assets" ELSE "temp/assets/now"

ReqWorkDir(r) == IF r.endpoint = "enhance" THEN "temp/enhance-id/id_now" ELSE "temp/now"

ReqOutputDir(r) == IF r.endpoint = "enhance" THEN "temp/enhance-id" ELSE "temp/output"

\* fs.rm(dir, {recursive: true}): the directory and everything below it
Tree(dir) ==
  IF dir = "temp/enhance-id"
  THEN {"temp/enhance-id", "temp/enhance-id/assets", "temp/enhance-id/id_now"}
  ELSE {dir}

RmDirs(ds, dir) == ds \ Tree(dir)

RmFiles(fs, dir) == {f \in fs : f.dir \notin Tree(dir)}

File(dir, name) == [dir |-> dir, name |-> name]

InitReq ==
  /\ request = NoRequest
  /\ rpc = "idle"
  /\ status = "pending"
  /\ rdirs = {}
  /\ rfiles = {}
  /\ spawned = {}
  /\ rencoder = "none"
  /\ rerror = "none"
  /\ rassets = NoAssets
  /\ metadata = QZero

\* duration of the file FFmpegRenderer.generateVideo leaves at outputPath for n images
GeneratedDuration(n, duration) ==
  IF n <= BATCH_THRESHOLD
  THEN RenderedDuration(BuildFilterComplex(n, duration, AdjustedTransition(Undefined, n),
                                           FALSE, FALSE, FALSE, FALSE))
  ELSE LET chs == ComputeChunks(ImageList(n))
           durs == [i \in 1..Len(chs) |-> ChunkDuration(duration, Len(chs[i].images), n)]
           fileDurs == [i \in 1..Len(chs) |->
                          RenderedDuration(ChunkGraph(chs[i].images, durs[i],
                                                      TransitionOrDefault(Undefined)))]
       IN  QMin(StitchedDuration(durs, chs, TransitionDuration(Undefined), fileDurs), duration)

\* processVideo up to prepareAssets: the video is found and marked processing
processVideo(r) ==
  /\ rpc = "idle"
  /\ request' = r
  /\ status' = "processing"
  /\ rpc' = "prepareAssets"
  /\ UNCHANGED <<rdirs, rfiles, spawned, rencoder, rerror, rassets, metadata>>

\* processEnhancedVideo up to prepareAssets: the temp directory of the video is created
processEnhancedVideo(r) ==
  /\ rpc = "idle"
  /\ request' = r
  /\ rdirs' = rdirs \cup {"temp/enhance-id"}
  /\ rpc' = "prepareAssets"
  /\ UNCHANGED <<status, rfiles, spawned, rencoder, rerror, rassets, metadata>>

\* a caller hands local assets to VideoGenerator.generateVideo
callGenerateVideo(r) ==
  /\ rpc = "idle"
  /\ request' = r
  /\ rassets' = [images |-> r.images, placeholder |-> FALSE, missing |-> FALSE]
  /\ rpc' = "generateVideo"
  /\ UNCHANGED <<status, rdirs, rfiles, spawned, rencoder, rerror, metadata>>

\* prepareAssets of both processors: mkdir, then the download of each media item; the
\* outcome request.asset is that of the first item. /enhance always has the original video
\* as an item.
prepareAssets ==
  /\ rpc = "prepareAssets"
  /\ LET dir == AssetsDir(request)
         enhance == request.endpoint = "enhance"
         outcome == IF request.images > 0 \/ enhance THEN request.asset ELSE "none"
         placeholder == outcome \in {"r2Fails", "noKey"}
     IN  /\ rdirs' = rdirs \cup {dir}
         /\ rfiles' = rfiles \cup (IF outcome = "downloaded" THEN {File(dir, "asset")}
                                   ELSE IF placeholder THEN {File(dir, "placeholder")}
                                   ELSE {})
         /\ spawned' = spawned \cup (IF outcome = "urlFails" THEN {"curl"}
                                     ELSE IF placeholder THEN {"ffmpeg"}
                                     ELSE {})
         /\ IF enhance /\ outcome = "urlFails"
            THEN /\ rerror' = "asset"
                 /\ rpc' = "outerFinally"
                 /\ UNCHANGED rassets
            ELSE IF ~enhance /\ request.images = 0
            THEN /\ rerror' = "validation"
                 /\ rpc' = "catch"
                 /\ UNCHANGED rassets
            ELSE /\ rassets' = [images |-> request.images, placeholder |-> placeholder,
                                missing |-> (outcome = "urlFails")]
                 /\ rpc' = IF enhance THEN "enhance" ELSE "generateVideo"
                 /\ UNCHANGED rerror
  /\ UNCHANGED <<request, status, rencoder, metadata>>

\* where an error thrown by VideoGenerator.generateVideo lands
Thrown == IF request.endpoint = "process" THEN "catch" ELSE "ended"

\* VideoGenerator.generateVideo up to `await fs.mkdir(workDir)`
generateVideoValidate ==
  /\ rpc = "generateVideo"
  /\ IF request.platform \notin Catalog \/ rassets.images < minImages
     THEN /\ rerror' = "validation"
          /\ rpc' = Thrown
          /\ UNCHANGED rdirs
     ELSE /\ rdirs' = rdirs \cup {ReqWorkDir(request)}
          /\ rpc' = "renderVideo"
          /\ UNCHANGED rerror
  /\ UNCHANGED <<request, status, rfiles, spawned, rencoder, rassets, metadata>>

\* VideoGenerator.renderVideo: mkdir outputDir, then the renderer spawns its encoder
renderVideoStart ==
  /\ rpc = "renderVideo"
  /\ rdirs' = rdirs \cup {ReqOutputDir(request)}
  /\ spawned' = spawned \cup {"ffmpeg"}
  /\ rencoder' = "running"
  /\ rpc' = "encoding"
  /\ UNCHANGED <<request, status, rfiles, rerror, rassets, metadata>>

\* EnhancedVideoProcessor.processVideoWithEnhancements up to its first encoder run; the
\* platform is not looked up in any catalog before
processVideoWithEnhancements ==
  /\ rpc = "enhance"
  /\ rdirs' = rdirs \cup {ReqWorkDir(request)}
  /\ spawned' = spawned \cup {"ffprobe", "ffmpeg"}
  /\ rencoder' = "running"
  /\ rpc' = "encoding"
  /\ UNCHANGED <<request, status, rfiles, rerror, rassets, metadata>>

\* the encoder emits `end`: the output file is written. An input that is not on disk
\* makes the encoder fail instead.
encoderEnd ==
  /\ rencoder = "running"
  /\ ~rassets.missing
  /\ rfiles' = rfiles \cup {File(ReqOutputDir(request), "output")}
  /\ rencoder' = "none"
  /\ rpc' = "finally"
  /\ UNCHANGED <<request, status, rdirs, spawned, rerror, rassets, metadata>>

\* the encoder emits `error`
encoderError ==
  /\ rencoder = "running"
  /\ rencoder' = "none"
  /\ rerror' = "encode"
  /\ rpc' = "finally"
  /\ UNCHANGED <<request, status, rdirs, rfiles, spawned, rassets, metadata>>

\* the encoder stalls: it emits neither `end` nor `error`, and nothing kills it
encoderHang ==
  /\ rencoder = "running"
  /\ rencoder' = "hung"
  /\ UNCHANGED <<request, rpc, status, rdirs, rfiles, spawned, rerror, rassets, metadata>>

generateVideoFinally_NoCleanup ==
  /\ rpc = "finally"
  /\ request.endpoint # "enhance"
  /\ rpc' = IF rerror # "none" THEN Thrown
            ELSE IF request.endpoint = "process" THEN "generated" ELSE "ended"
  /\ UNCHANGED <<request, status, rdirs, rfiles, spawned, rencoder, rerror, rassets, metadata>>

\* VideoGenerator.generateVideo: finally { if (!options.keepTemp) fs.rm(workDir) }
generateVideoFinally ==
  /\ rpc = "finally"
  /\ request.endpoint # "enhance"
  /\ rdirs' = IF request.keepTemp THEN rdirs ELSE RmDirs(rdirs, ReqWorkDir(request))
  /\ rfiles' = IF request.keepTemp THEN rfiles ELSE RmFiles(rfiles, ReqWorkDir(request))
  /\ rpc' = IF rerror # "none" THEN Thrown
            ELSE IF request.endpoint = "process" THEN "generated" ELSE "ended"
  /\ UNCHANGED <<request, status, spawned, rencoder, rerror, rassets, metadata>>

\* processVideoWithEnhancements: finally { if (!settings?.keepTemp) fs.rm(workDir) }
enhancementsFinally ==
  /\ rpc = "finally"
  /\ request.endpoint = "enhance"
  /\ rdirs' = IF request.keepTemp THEN rdirs ELSE RmDirs(rdirs, ReqWorkDir(request))
  /\ rfiles' = IF request.keepTemp THEN rfiles ELSE RmFiles(rfiles, ReqWorkDir(request))
  /\ rpc' = IF rerror # "none" THEN "outerFinally" ELSE "enhanced"
  /\ UNCHANGED <<request, status, spawned, rencoder, rerror, rassets, metadata>>

\* processVideo steps 7-11: probe, upload, thumbnail, status completed, unlink the output.
\* getVideoMetadata returns duration 0 when ffprobe fails.
\* `fs.unlink(outputPath).catch(() => {})`: a failed unlink is swallowed.
processVideoEnd(probeOk, unlinkOk) ==
  /\ rpc = "generated"
  /\ spawned' = spawned \cup {"ffprobe", "ffmpeg"}
  /\ metadata' = IF probeOk THEN GeneratedDuration(rassets.images, request.targetDuration)
                 ELSE QZero
  /\ status' = "completed"
  /\ rfiles' = IF unlinkOk THEN rfiles \ {File(ReqOutputDir(request), "output")} ELSE rfiles
  /\ rpc' = "ended"
  /\ UNCHANGED <<request, rdirs, rencoder, rerror, rassets>>

\* processVideo steps 7-9 throw (stat, upload or thumbnail)
processVideoUploadError ==
  /\ rpc = "generated"
  /\ rerror' = "upload"
  /\ rpc' = "catch"
  /\ UNCHANGED <<request, status, rdirs, rfiles, spawned, rencoder, rassets, metadata>>

\* processVideo: catch { status failed; throw }
processVideoCatch ==
  /\ rpc = "catch"
  /\ status' = "failed"
  /\ rpc' = "ended"
  /\ UNCHANGED <<request, rdirs, rfiles, spawned, rencoder, rerror, rassets, metadata>>

\* processEnhancedVideo after the enhancement: upload, probe, status completed
processEnhancedVideoEnd(probeOk) ==
  /\ rpc = "enhanced"
  /\ spawned' = spawned \cup {"ffprobe"}
  /\ metadata' = IF probeOk THEN request.targetDuration ELSE QZero
  /\ status' = "completed"
  /\ rpc' = "outerFinally"
  /\ UNCHANGED <<request, rdirs, rfiles, rencoder, rerror, rassets>>

\* processEnhancedVideo: finally { await fs.rm(tempDir) }, then catch { status failed;
\* throw }. The rm has no catch of its own: when it rejects, its error leaves the finally
\* block and reaches the outer catch like any error of the try block.
processEnhancedVideoFinally(rmOk) ==
  /\ rpc = "outerFinally"
  /\ rdirs' = IF rmOk THEN RmDirs(rdirs, "temp/enhance-id") ELSE rdirs
  /\ rfiles' = IF rmOk THEN RmFiles(rfiles, "temp/enhance-id") ELSE rfiles
  /\ rerror' = IF rmOk THEN rerror ELSE "cleanup"
  /\ status' = IF rerror' # "none" THEN "failed" ELSE status
  /\ rpc' = "ended"
  /\ UNCHANGED <<request, spawned, rencoder, rassets, metadata>>

NextReq ==
  \/ \E r \in ProcessRequests : processVideo(r)
  \/ \E r \in EnhanceRequests : processEnhancedVideo(r)
  \/ \E r \in GenerateRequests : callGenerateVideo(r)
  \/ prepareAssets
  \/ generateVideoValidate
  \/ renderVideoStart
  \/ processVideoWithEnhancements
  \/ encoderEnd
  \/ encoderError
  \/ encoderHang
  \/ generateVideoFinally
  \/ enhancementsFinally
  \/ \E probeOk, unlinkOk \in BOOLEAN : processVideoEnd(probeOk, unlinkOk)
  \/ processVideoUploadError
  \/ processVideoCatch
  \/ \E probeOk \in BOOLEAN : processEnhancedVideoEnd(probeOk)
  \/ \E rmOk \in BOOLEAN : processEnhancedVideoFinally(rmOk)

\* ------------------------------------------------------------------------
\* Durations of the enhancement path and of VideoGenerator.renderVideo
\* ------------------------------------------------------------------------
VARIABLES
  enh   \* the duration bookkeeping of one enhancement / one renderVideo call

\* durations in whole seconds; 0 stands for an absent (falsy) value
OriginalDurations == {10, 30}

DurationInfos == [targetVideoDuration : {0, 10, 20, 40}, loopCount : {0, 2, 4}]

VoiceoverDurations == {0, 5, 15, 25, 38}

\* applyAudio: durationInfo.voiceoverStartDelay || 0.5, durationInfo.voiceoverEndDelay || 1.0
voiceoverStartDelay == Q(1, 2)

voiceoverEndDelay == Q(1, 1)

\* Math.ceil(a / b) for positive integers
CeilDiv(a, b) == QCeil(Q(a, b))

\* duration of a video read with `-stream_loop loopCount - 1` and cut by `-t target`
Looped(duration, loopCount, target) == Min(duration * loopCount, target)

\* processVideoWithEnhancements: duration of currentVideoPath after the dynamic duration step
DynamicDuration(original, info) ==
  LET targetDuration == info.targetVideoDuration
      loopCount == IF info.loopCount # 0 THEN info.loopCount ELSE 1
  IN  IF targetDuration # 0
      THEN IF loopCount > 1 /\ targetDuration > original
           THEN Looped(original, loopCount, targetDuration)
           ELSE IF targetDuration < original THEN targetDuration
           ELSE original
      ELSE original

\* applyAudio: the final targetVideoDuration, the loop count, and the duration of the video
\* stream of the output (`-c:v copy`, cut by `-t targetVideoDuration`). videoInfo is the
\* probe of the original video, inputPath the video after the dynamic duration step.
ApplyAudio(inputDuration, videoInfoDuration, info, voiceoverDuration) ==
  LET initialTarget == IF info.targetVideoDuration # 0 THEN info.targetVideoDuration
                       ELSE videoInfoDuration
      initialLoop == IF info.loopCount # 0 THEN info.loopCount ELSE 1
      totalVoiceoverTime == QAdd(QAdd(voiceoverStartDelay, Q(voiceoverDuration, 1)),
                                 voiceoverEndDelay)
      extend == voiceoverDuration # 0 /\ QLt(Q(initialTarget, 1), totalVoiceoverTime)
      targetVideoDuration == IF extend THEN QCeil(totalVoiceoverTime) ELSE initialTarget
      loopCount == IF extend THEN CeilDiv(targetVideoDuration, videoInfoDuration)
                   ELSE initialLoop
      loops == loopCount > 1 /\ targetVideoDuration > videoInfoDuration
  IN  [initialTarget |-> initialTarget,
       totalVoiceoverTime |-> totalVoiceoverTime,
       targetVideoDuration |-> targetVideoDuration,
       loopCount |-> loopCount,
       video |-> IF loops THEN Looped(inputDuration, loopCount, targetVideoDuration)
                 ELSE Min(inputDuration, targetVideoDuration)]

\* VideoGenerator.renderVideo: the duration handed to the renderer (the probe of the
\* voice-over succeeds)
RenderVideoDuration(imageCount, targetDuration, audioDuration) ==
  IF targetDuration # 0 THEN targetDuration
  ELSE IF audioDuration # 0 THEN Max(audioDuration + 3, imageCount * 3)
  ELSE imageCount * 5

InitEnh == enh = [stage |-> "idle"]

\* processVideoWithEnhancements, steps 1-2 and the dynamic duration step
dynamicDuration(original, info, voiceoverDuration) ==
  /\ enh.stage = "idle"
  /\ enh' = [stage |-> "duration", videoInfo |-> original, info |-> info,
             voiceover |-> voiceoverDuration, current |-> DynamicDuration(original, info)]

\* processVideoWithEnhancements, step 5: applyAudio(currentVideoPath, enhancements, videoInfo)
applyAudio ==
  /\ enh.stage = "duration"
  /\ enh' = [stage |-> "audio", voiceover |-> enh.voiceover, input |-> enh.current,
             result |-> ApplyAudio(enh.current, enh.videoInfo, enh.info, enh.voiceover)]

\* VideoGenerator.renderVideo with a voice-over asset of the given duration (0: none)
renderVideoDuration(platform, imageCount, targetDuration, audioDuration) ==
  /\ enh.stage = "idle"
  /\ enh' = [stage |-> "renderVideo", platform |-> platform, imageCount |-> imageCount,
             targetDuration |-> targetDuration,
             voiceover |-> audioDuration,
             duration |-> RenderVideoDuration(imageCount, targetDuration, audioDuration)]

NextEnh ==
  \/ \E original \in OriginalDurations, info \in DurationInfos,
        voiceoverDuration \in VoiceoverDurations :
       dynamicDuration(original, info, voiceoverDuration)
  \/ applyAudio
  \/ \E platform \in {"youtube", "youtube_shorts"},
        imageCount \in {minImages, BATCH_THRESHOLD + 1}, targetDuration \in {0, 15, 30, 90},
        audioDuration \in {0, 5, 20, 40} :
       renderVideoDuration(platform, imageCount, targetDuration, audioDuration)

\* ------------------------------------------------------------------------
\* Platform catalog: templates, overlay sizing, final-encode settings
\* ------------------------------------------------------------------------
VARIABLES
  sizing,   \* the last call of MathematicalSizing.calculateLogoSize and its result
  lookup,   \* the last resolution of a platform identifier by a component
  layout    \* the last call of recommendMode or of the overlay probe, and its result

\* PlatformTemplates.templates: the platform identifiers of the catalog
TemplateKeys ==
  {"youtube", "youtube_shorts", "instagram_reel", "instagram_feed", "instagram_portrait",
   "instagram", "tiktok", "facebook", "facebook_reels", "linkedin", "twitter_landscape",
   "twitter_portrait", "twitter_square"}

Template(width, height, min, max, default) ==
  [resolution |-> <<width, height>>, duration |-> [min |-> min, max |-> max, default |-> default]]

\* PlatformTemplates.templates: resolution and duration of each template
templates ==
  [youtube |-> Template(1920, 1080, 15, 43200, 35),
   youtube_shorts |-> Template(1080, 1920, 5, 60, 30),
   instagram_reel |-> Template(1080, 1920, 15, 90, 30),
   instagram_feed |-> Template(1080, 1080, 3, 60, 15),
   instagram_portrait |-> Template(1080, 1350, 15, 60, 30),
   instagram |-> Template(1080, 1080, 3, 60, 15),
   tiktok |-> Template(1080, 1920, 5, 600, 30),
   facebook |-> Template(1920, 1080, 15, 14400, 60),
   facebook_reels |-> Template(1080, 1920, 5, 90, 30),
   linkedin |-> Template(1920, 1080, 10, 600, 30),
   twitter_landscape |-> Template(1280, 720, 2, 140, 30),
   twitter_portrait |-> Template(720, 1280, 2, 140, 30),
   twitter_square |-> Template(720, 720, 2, 140, 30)]

\* the identifiers a caller can send: platform is any string
PlatformIds == TemplateKeys \cup {"unknown"}

PHI_INVERSE == Q(618, 1000)

HorizontalConfig(percent, minSize, maxSize, maxWidthPercent) ==
  [logoHeightPercent |-> percent, reference |-> "height", minSize |-> minSize,
   maxSize |-> maxSize, maxWidthPercent |-> maxWidthPercent]

VerticalConfig(percent, minSize, maxSize) ==
  [logoHeightPercent |-> percent, reference |-> "width", minSize |-> minSize,
   maxSize |-> maxSize, maxWidthPercent |-> QZero]

\* MathematicalSizing.PLATFORM_CONFIGS (an absent maxWidthPercent is 0: falsy)
PLATFORM_CONFIGS ==
  [youtube |-> HorizontalConfig(Q(833, 10000), 80, 200, QZero),
   instagram_reel |-> VerticalConfig(Q(1, 10), 100, 200),
   tiktok |-> VerticalConfig(Q(1, 10), 100, 200),
   instagram_feed |-> VerticalConfig(Q(1, 8), 100, 250),
   facebook |-> HorizontalConfig(Q(833, 10000), 80, 200, QZero),
   linkedin |-> HorizontalConfig(Q(1, 16), 70, 180, Q(1, 4)),
   youtube_shorts |-> VerticalConfig(Q(1, 10), 100, 200),
   facebook_reels |-> VerticalConfig(Q(1, 10), 100, 200),
   instagram |-> VerticalConfig(Q(1, 10), 100, 200)]

\* calculateLogoSize: `this.PLATFORM_CONFIGS[platform] || this.PLATFORM_CONFIGS['youtube']`
SizingConfigKey(platform) ==
  IF platform \in DOMAIN PLATFORM_CONFIGS THEN platform ELSE "youtube"

\* EnhancedVideoProcessor.getPlatformSettings: `settings[platform] || settings.youtube`
PlatformSettingsKeys == {"youtube", "youtube_shorts", "tiktok", "instagram"}

GetPlatformSettings(platform) ==
  IF platform \in PlatformSettingsKeys THEN platform ELSE "youtube"

\* PlatformTemplates.getTemplate: throws for a key that is not in templates
GetTemplate(platform) == IF platform \in TemplateKeys THEN platform ELSE "error"

MIN_CLEAR_SPACE_RATIO == Q(1, 20)

\* MathematicalSizing.calculateGoldenPosition, for the two positions its callers pass
\* ('bottom-right' is also the answer for a descriptor that is not in the table)
CalculateGoldenPosition(containerWidth, containerHeight, elementWidth, elementHeight, position) ==
  LET marginX == QMulInt(MIN_CLEAR_SPACE_RATIO, containerWidth)
      marginY == QMulInt(MIN_CLEAR_SPACE_RATIO, containerHeight)
  IN  IF position = "center"
      THEN [x |-> QDivInt(QSub(Q(containerWidth, 1), elementWidth), 2),
            y |-> QDivInt(QSub(Q(containerHeight, 1), elementHeight), 2)]
      ELSE [x |-> QSub(QSub(Q(containerWidth, 1), elementWidth), marginX),
            y |-> QSub(QSub(Q(containerHeight, 1), elementHeight), marginY)]

FinalHeight_NoMinSize(originalLogoHeight, scale, config) ==
  QMin(QMulInt(scale, originalLogoHeight), Q(config.maxSize, 1))

\* calculateLogoSize, step 4: Math.max(Math.min(originalLogoHeight * scale, maxSize), minSize)
FinalHeight(originalLogoHeight, scale, config) ==
  QMax(QMin(QMulInt(scale, originalLogoHeight), Q(config.maxSize, 1)), Q(config.minSize, 1))

\* MathematicalSizing.calculateLogoSize
CalculateLogoSize(platform, videoWidth, videoHeight, originalLogoWidth, originalLogoHeight) ==
  LET config == PLATFORM_CONFIGS[SizingConfigKey(platform)]
      aspectRatio == Q(videoWidth, videoHeight)
      referenceDimension ==
        IF config.reference = "width" \/ QLt(aspectRatio, Q(7, 10)) THEN videoWidth
        ELSE videoHeight
      targetSize == QMulInt(config.logoHeightPercent, referenceDimension)
      logoAspectRatio == Q(originalLogoWidth, originalLogoHeight)
      goldenWidth == QDivInt(QMulInt(PHI_INVERSE, videoWidth), 2)
      platformWidth == QMulInt(config.maxWidthPercent, videoWidth)
      maxWidth == IF config.maxWidthPercent # QZero /\ QLt(platformWidth, goldenWidth)
                  THEN platformWidth ELSE goldenWidth
      capped == QLt(Q(1, 1), logoAspectRatio) /\ QLt(maxWidth, QMul(targetSize, logoAspectRatio))
      scaledHeight == IF capped THEN QDiv(maxWidth, logoAspectRatio) ELSE targetSize
      scale == QMin(QDivInt(scaledHeight, originalLogoHeight),
                    QMin(Q(config.maxSize, originalLogoHeight),
                         QMul(Q(config.maxSize, originalLogoWidth), logoAspectRatio)))
      finalHeight == FinalHeight(originalLogoHeight, scale, config)
      finalWidth == QMul(finalHeight, logoAspectRatio)
      position == CalculateGoldenPosition(videoWidth, videoHeight, finalWidth, finalHeight,
                                          "bottom-right")
  IN  [width |-> QRound(finalWidth), height |-> QRound(finalHeight),
       x |-> QRound(position.x), y |-> QRound(position.y),
       reference |-> config.reference]

VideoSizes == {<<1920, 1080>>, <<1080, 1920>>, <<1080, 1080>>}

\* overlay assets: width and height in pixels, both positive
LogoSizes == {<<500, 100>>, <<100, 100>>, <<100, 400>>, <<3000, 50>>, <<40, 40>>, <<1200, 300>>}

NoLookup == [component |-> "none"]

InitCatalog ==
  /\ sizing = NoLookup
  /\ lookup = NoLookup

\* a caller sizes a logo for a platform
calculateLogoSize(platform, video, logo) ==
  /\ sizing = NoLookup
  /\ lookup = NoLookup
  /\ layout = NoLookup
  /\ sizing' = [component |-> "sizing", platform |-> platform, video |-> video, logo |-> logo,
                size |-> CalculateLogoSize(platform, video[1], video[2], logo[1], logo[2])]
  /\ lookup' = [component |-> "sizing", platform |-> platform,
                config |-> SizingConfigKey(platform)]
  /\ UNCHANGED layout

\* VideoGenerator.generateVideo resolves the platform's template
getTemplate(platform) ==
  /\ lookup = NoLookup
  /\ layout = NoLookup
  /\ lookup' = [component |-> "template", platform |-> platform,
                config |-> GetTemplate(platform)]
  /\ UNCHANGED <<sizing, layout>>

\* EnhancedVideoProcessor.finalEncode resolves the platform's encoding settings
getPlatformSettings(platform) ==
  /\ lookup = NoLookup
  /\ layout = NoLookup
  /\ lookup' = [component |-> "settings", platform |-> platform,
                config |-> GetPlatformSettings(platform)]
  /\ UNCHANGED <<sizing, layout>>

NextCatalog ==
  \/ \E platform \in PlatformIds, video \in VideoSizes, logo \in LogoSizes :
       calculateLogoSize(platform, video, logo)
  \/ \E platform \in PlatformIds : getTemplate(platform)
  \/ \E platform \in PlatformIds : getPlatformSettings(platform)

\* ------------------------------------------------------------------------
\* Image layout: the mode recommended for an image, the dimensions of an overlay
\* ------------------------------------------------------------------------

\* ImageHandlingModes.modes
modes ==
  [CROP_FILL |-> "crop_fill", LETTERBOX |-> "letterbox", BLUR_BACKGROUND |-> "blur_bg",
   SMART_CROP |-> "smart_crop"]

\* FFmpegRenderer.IMAGE_MODES: the values buildFilterComplex compares imageMode with
IMAGE_MODES ==
  [CROP_FILL |-> "crop_fill", LETTERBOX |-> "letterbox",
   BLUR_BACKGROUND |-> "blur_background", AUTO |-> "auto"]

\* recommendMode: Math.abs(imageAspect - videoAspect) / videoAspect, in exact arithmetic
MismatchRatio(imageAspect, videoAspect) ==
  QDiv(QAbs(QSub(imageAspect, videoAspect)), videoAspect)

\* ImageHandlingModes.recommendMode
RecommendMode(imageAspect, videoAspect) ==
  LET mismatchRatio == MismatchRatio(imageAspect, videoAspect)
  IN  IF QLt(mismatchRatio, Q(1, 5)) THEN modes.CROP_FILL
      ELSE IF QLt(mismatchRatio, Q(1, 2)) THEN modes.BLUR_BACKGROUND
      ELSE modes.LETTERBOX

\* images: width and height in pixels; against the square frame 1200x1000 and 800x1000
\* have mismatch 0.2 and 1500x1000 and 500x1000 have mismatch 0.5
ImageSizes ==
  {<<1920, 1080>>, <<1080, 1920>>, <<1080, 1080>>, <<1200, 1000>>, <<800, 1000>>,
   <<1500, 1000>>, <<500, 1000>>, <<4000, 3000>>, <<1100, 1000>>}

\* what ffprobe answers for an overlay file: an error for a file it cannot read, or the
\* width and height of the first video stream (0 for a stream without a picture size)
ProbeError == [err |-> TRUE]

Probes ==
  {ProbeError} \cup
  {[err |-> FALSE, width |-> d[1], height |-> d[2]] :
     d \in LogoSizes \cup {<<0, 0>>, <<0, 100>>, <<100, 0>>}}

FallbackDimensions == [width |-> 1920, height |-> 1080]

\* FFmpegRenderer.getImageDimensions: rejects when ffprobe fails, otherwise resolves
\* with the stream's width and height as they are
GetImageDimensions(probe) ==
  IF probe.err THEN [rejected |-> TRUE]
  ELSE [rejected |-> FALSE, width |-> probe.width, height |-> probe.height]

\* FFmpegProcessor.getImageDimensions: the catch returns 1920x1080 when ffprobe
\* fails, otherwise parseInt of the stream's width and height
ProcessorGetImageDimensions(probe) ==
  IF probe.err THEN [rejected |-> FALSE] @@ FallbackDimensions
  ELSE [rejected |-> FALSE, width |-> probe.width, height |-> probe.height]

NaN == [finite |-> FALSE]

Resolution(platform) == templates[platform].resolution

\* calculateAllSizes -> calculateLogoSize with the probed dimensions. With a zero width
\* or height logoAspectRatio is 0, Infinity or NaN, scale is Math.min over a NaN
\* (0/0 or Infinity * 0), and finalHeight and finalWidth are NaN
LogoSizeOf(platform, dimensions) ==
  IF dimensions.width = 0 \/ dimensions.height = 0 THEN NaN
  ELSE [finite |-> TRUE] @@
       CalculateLogoSize(platform, Resolution(platform)[1], Resolution(platform)[2],
                         dimensions.width, dimensions.height)

layoutIdle == layout = NoLookup /\ sizing = NoLookup /\ lookup = NoLookup

\* a caller asks for the mode of an image in a frame
recommendMode(image, video) ==
  /\ layoutIdle
  /\ layout' = [component |-> "recommendMode", image |-> image, video |-> video,
                mode |-> RecommendMode(Q(image[1], image[2]), Q(video[1], video[2]))]
  /\ UNCHANGED <<sizing, lookup>>

\* VideoGenerator.generateVideo: `dimensions.logo = await renderer.getImageDimensions(logo)`
\* then `templates.getTemplate(platform, dimensions)`; a rejection leaves generateVideo
logoDimensions(platform, probe) ==
  /\ layoutIdle
  /\ LET dimensions == GetImageDimensions(probe)
     IN  layout' = [component |-> "dimensions", platform |-> platform, probe |-> probe,
                    dimensions |-> dimensions,
                    thrown |-> dimensions.rejected,
                    size |-> IF dimensions.rejected THEN Undefined
                             ELSE LogoSizeOf(platform, dimensions)]
  /\ UNCHANGED <<sizing, lookup>>

\* image lists as prepareAssets builds them: one temp path per media item, derived from
\* item.filename, so two items with the same filename give the same path twice
MaxPaths == 3

PathLists == UNION {[1..n -> 1..MaxPaths] : n \in 1..MaxPaths}

\* images.indexOf(img): the position of the first occurrence
IndexOf(images, img) ==
  CHOOSE i \in 1..Len(images) : images[i] = img /\ \A j \in 1..(i - 1) : images[j] # img

Label(name, index) == [name |-> name, index |-> index]

\* buildFilterComplex, image part: the filters in the order they are pushed, each with
\* the labels it reads and the label it defines. The pre-processing loop runs once per
\* list entry and names its output after images.indexOf(img); the clip loop reads
\* processed<imageMap[img]>; the xfade chain joins the clips (positions count from 1)
ImageFilters(images) ==
  LET n == Len(images)
      pre == [k \in 1..n |->
                [in |-> <<Label("input", IndexOf(images, images[k]))>>,
                 out |-> Label("processed", IndexOf(images, images[k]))]]
      clips == [k \in 1..n |->
                  [in |-> <<Label("processed", IndexOf(images, images[k]))>>,
                   out |-> Label("v", k)]]
      chain == IF n = 1
               THEN <<[in |-> <<Label("v", 1)>>, out |-> Label("base_video", 0)]>>
               ELSE [i \in 1..(n - 1) |->
                       [in |-> <<IF i = 1 THEN Label("v", 1) ELSE Label("xfade", i - 1),
                                 Label("v", i + 1)>>,
                        out |-> IF i = n - 1 THEN Label("base_video", 0)
                                ELSE Label("xfade", i)]]
  IN  pre \o clips \o chain

\* buildFilterComplex is given the image list of a request
buildImageFilters(images) ==
  /\ layoutIdle
  /\ layout' = [component |-> "filters", images |-> images,
                filters |-> ImageFilters(images)]
  /\ UNCHANGED <<sizing, lookup>>

NextLayout ==
  \/ \E image \in ImageSizes, video \in VideoSizes : recommendMode(image, video)
  \/ \E platform \in TemplateKeys, probe \in Probes : logoDimensions(platform, probe)
  \/ \E images \in PathLists : buildImageFilters(images)

catalogVars == <<sizing, lookup, layout>>

pureVars == <<enh, catalogVars>>

InitPure == InitEnh /\ InitCatalog /\ layout = NoLookup

\* ------------------------------------------------------------------------
\* HTTP server: the POST /enhance handler and the response timeout it arms
\* ------------------------------------------------------------------------
VARIABLE http   \* per request: handler position, timer, res.json calls, response written

MaxRequests == 3

HttpRequests == 1..MaxRequests

InitHttp ==
  http = [q \in HttpRequests |->
            [pc |-> "idle", timer |-> "unset", calls |-> <<>>, wire |-> <<>>,
             unhandled |-> FALSE]]

\* res.status(code).json(body) on the response h: the first call writes the response and
\* detaches it from the socket (its timeout listener can no longer fire); a call after
\* the headers were sent throws ERR_HTTP_HEADERS_SENT and writes nothing
HeadersSent(h) == h.wire # <<>>

Json(h, code) ==
  [h EXCEPT !.calls = Append(@, code),
            !.wire = IF HeadersSent(h) THEN @ ELSE <<code>>,
            !.timer = IF h.timer = "armed" THEN "cleared" ELSE @]

\* app.post('/enhance'): enhanceSchema.parse throws for an invalid body and the catch
\* answers 500; otherwise res.setTimeout arms the timer and processEnhancedVideo starts
enhance(q, valid) ==
  /\ http[q].pc = "idle"
  /\ http' = [http EXCEPT ![q] =
               IF valid THEN [@ EXCEPT !.pc = "processing", !.timer = "armed"]
               ELSE [Json(@, 500) EXCEPT !.pc = "ended"]]

\* the res.setTimeout callback, 5 minutes after the request: res.status(504).json(...)
enhanceTimeout(q) ==
  /\ http[q].timer = "armed"
  /\ http' = [http EXCEPT ![q] = [Json(@, 504) EXCEPT !.timer = "fired"]]

\* processEnhancedVideo resolves: res.json(result); when that throws, the catch of the
\* handler calls res.status(500).json, and when that throws too the async handler
\* rejects and nothing handles the rejection
enhanceResolved(q) ==
  /\ http[q].pc = "processing"
  /\ http' = [http EXCEPT ![q] =
               IF HeadersSent(@)
               THEN [Json(Json(@, 200), 500) EXCEPT !.pc = "ended", !.unhandled = TRUE]
               ELSE [Json(@, 200) EXCEPT !.pc = "ended"]]

\* processEnhancedVideo rejects: the catch of the handler calls res.status(500).json
enhanceRejected(q) ==
  /\ http[q].pc = "processing"
  /\ http' = [http EXCEPT ![q] =
               [Json(@, 500) EXCEPT !.pc = "ended", !.unhandled = HeadersSent(http[q])]]

NextHttp ==
  \E q \in HttpRequests :
    \/ \E valid \in BOOLEAN : enhance(q, valid)
    \/ enhanceTimeout(q)
    \/ enhanceResolved(q)
    \/ enhanceRejected(q)

\* ------------------------------------------------------------------------
\* Specifications
\* ------------------------------------------------------------------------
vars == <<renderVars, jobVars, reqVars, pureVars, http>>

Init == InitRender /\ InitJobs /\ InitReq /\ InitPure /\ InitHttp

Next == NextRender /\ UNCHANGED <<jobVars, reqVars, pureVars, http>>

Spec == Init /\ [][Next]_vars

SpecJobs == Init /\ [][NextJobs /\ UNCHANGED <<renderVars, reqVars, pureVars, http>>]_vars

SpecCap == Init /\ [][NextCap /\ UNCHANGED <<renderVars, reqVars, pureVars, http>>]_vars

SpecReq == Init /\ [][NextReq /\ UNCHANGED <<renderVars, jobVars, pureVars, http>>]_vars

\* every step of a request is taken by the Node event loop once it is possible
SpecReqLive ==
  SpecReq /\ WF_vars(NextReq /\ UNCHANGED <<renderVars, jobVars, pureVars, http>>)

SpecEnh ==
  Init /\ [][NextEnh /\ UNCHANGED <<renderVars, jobVars, reqVars, catalogVars, http>>]_vars

SpecCatalog ==
  Init /\ [][NextCatalog /\ UNCHANGED <<renderVars, jobVars, reqVars, enh, http>>]_vars

SpecHttp == Init /\ [][NextHttp /\ UNCHANGED <<renderVars, jobVars, reqVars, pureVars>>]_vars

SpecLayout ==
  Init /\ [][NextLayout /\ UNCHANGED <<renderVars, jobVars, reqVars, enh, http>>]_vars

\* ------------------------------------------------------------------------
\* Properties of a render request
\* ------------------------------------------------------------------------
Range(f) == {f[i] : i \in DOMAIN f}

Last(sq) == sq[Len(sq)]

Chunked == Len(options.images) > BATCH_THRESHOLD

GraphRenders == {i \in 1..Len(renders) : renders[i].kind \in {"single", "chunk"}}

ChunkRenders == {i \in 1..Len(renders) : renders[i].kind = "chunk"}

C2_BatchDurationsSumToTarget ==
  \A i \in 1..Len(renders) :
    renders[i].kind = "concat" =>
      QSub(QSum(chunkDurations),
           QMulInt(renders[i].transitionDuration, Len(chunkDurations) - 1)) = options.duration

\* C3: batch/no-batch equivalence. With exactly BATCH_THRESHOLD images (single pass) and
\* with BATCH_THRESHOLD + 1 images (batched), the finished output lasts the target
\* duration within the 0.1s tolerance.
C3_BoundaryDurationWithinTolerance ==
  (pc = "resolved" /\ Len(options.images) \in {BATCH_THRESHOLD, BATCH_THRESHOLD + 1}) =>
    /\ Exists(files, options.outputPath)
    /\ QLe(QAbs(QSub(files[options.outputPath], options.duration)), Tolerance)

RequestedOverlays ==
  (IF options.logo THEN {"logo"} ELSE {}) \cup (IF options.reviewImage THEN {"review"} ELSE {})

RequestedAudio ==
  (IF options.voiceOver THEN {"voiceOver"} ELSE {})
  \cup (IF options.backgroundMusic THEN {"music"} ELSE {})

OverlayRenders == {i \in 1..Len(renders) : renders[i].kind = "overlay"}

\* C6: in the batched path no chunk render composites an overlay or mixes a supplied audio
\* track; voice-over, music, logo and review card are applied by one addAudioAndOverlays
\* run, on the stitched video, after the concat of all chunks; a request that got through
\* the batched path had exactly one such run.
C6_OverlaysOnceOnStitched ==
  Chunked =>
    /\ \A i \in ChunkRenders :
         renders[i].graph.overlays = {} /\ renders[i].graph.audio = {}
    /\ Cardinality(OverlayRenders) <= 1
    /\ \A i \in OverlayRenders :
         /\ renders[i].overlays = RequestedOverlays
         /\ renders[i].audio = RequestedAudio
         /\ renders[i].input = TempConcatenated(options.outputPath)
         /\ i >= 2
         /\ renders[i - 1].kind = "concat"
         /\ Len(renders[i - 1].inputs) = Len(chunks)
    /\ pc \in {"cleanupChunks", "run", "resolved"} => Cardinality(OverlayRenders) = 1

C6_Witness ==
  /\ Chunked
  /\ pc = "resolved"
  /\ RequestedOverlays = {"logo", "review"}
  /\ RequestedAudio = {"voiceOver", "music"}
  /\ Cardinality(OverlayRenders) = 1

StitchEntered ==
  \/ pc \in {"concatenate", "addAudioAndOverlays", "cleanupChunks"}
  \/ \E i \in 1..Len(renders) : renders[i].kind \in {"concat", "overlay"}

\* C7: join barrier. concatenateChunksWithTransitions is entered only when every chunk of
\* the request has been rendered to the end: no chunk render is in flight and none is
\* missing.
C7_JoinBarrier ==
  StitchEntered =>
    /\ running.kind # "chunk"
    /\ chunkIndex = Len(chunks)
    /\ Len(chunkPaths) = Len(chunks)
    /\ \A k \in 0..(Len(chunks) - 1) :
         \E i \in ChunkRenders :
           /\ renders[i].index = k
           /\ \A j \in 1..Len(renders) : renders[j].kind \in {"concat", "overlay"} => i < j

C7_Witness == pc = "concatenate" /\ running.kind = "concat" /\ Len(running.inputs) = 4

\* ------------------------------------------------------------------------
\* Properties of concurrent jobs
\* ------------------------------------------------------------------------
RunningEncoders == {j \in JobSlots : encoder[j] # NoRender}

\* C8: the number of encoder subprocesses running at the same time never exceeds
\* MAX_CONCURRENT_JOBS, however many jobs /process has accepted.
C8_EncodersWithinCap == Cardinality(RunningEncoders) <= MAX_CONCURRENT_JOBS

\* C9: two jobs that hold a working directory at the same time hold different ones.
C9_WorkDirExclusive ==
  \A j1, j2 \in JobSlots :
    (j1 # j2 /\ workDir[j1] # NoPath /\ workDir[j2] # NoPath) => workDir[j1] # workDir[j2]

\* C10: from the end of a chunk's render until the job's stitch has read it, the chunk's
\* intermediate file is on disk as that job and chunk wrote it: no other chunk and no other
\* job has written, overwritten or deleted that path.
C10_ChunkFilesOwned ==
  \A j \in JobSlots :
    jpc[j] \in {"renderChunks", "concatenate"} =>
      \A k \in 0..(jchunkIndex[j] - 1) :
        /\ Exists(disk, ChunkPath(jobOutputPath[j], k))
        /\ disk[ChunkPath(jobOutputPath[j], k)] = [job |-> j, index |-> k]

\* the intermediate artifacts job j wrote that are still on disk
JobArtifacts(j) ==
  {q \in DOMAIN disk : disk[q].job = j /\ q.kind \in {"chunk", "concatenated"}}

\* C11: when a job has ended, by returning the output path or by throwing, none of the
\* intermediate files it wrote (chunk files, the stitched temporary file) is left on disk.
C11_ArtifactsDeletedOnExit ==
  \A j \in JobSlots : jpc[j] \in {"generated", "failed"} => JobArtifacts(j) = {}

\* ------------------------------------------------------------------------
\* Properties of one request through the service
\* ------------------------------------------------------------------------

\* the working directory of the request was created: no error was thrown before its mkdir
WorkDirCreated == rerror \notin {"validation", "asset"}

\* VideoGenerator.generateVideo or processVideoWithEnhancements has returned or thrown
GeneratorEnded ==
  \/ rpc \in {"generated", "catch", "enhanced", "outerFinally"}
  \/ rpc = "ended" /\ request.endpoint = "generate"

C13_RejectedBeforeSideEffects ==
  rerror = "validation" => (rdirs = {} /\ rfiles = {} /\ spawned = {})

\* an encoder run of the batched path ends without having written its output
EncodeFails ==
  /\ running.kind \in {"chunk", "concat", "overlay"}
  /\ running' = NoRender
  /\ files' = files

\* C14: the failure of a chunk render, of the stitch or of the audio/overlay pass rejects
\* generateVideo; after the rejection no encoder is spawned (no retry, no later chunk); and
\* the stitch runs only on the files of all chunks.
C14_EncodeFailurePropagates ==
  /\ [][EncodeFails => pc' = "rejected"]_vars
  /\ [][pc = "rejected" => UNCHANGED <<pc, renders, running>>]_vars
  /\ [](running.kind = "concat" =>
          /\ Len(running.inputs) = Len(chunks)
          /\ \A i \in 1..Len(running.inputs) : Exists(files, running.inputs[i]))

C14_Witness ==
  /\ pc = "rejected"
  /\ Chunked
  /\ chunkIndex = 1
  /\ Len(renders) = 2
  /\ running = NoRender

\* C15: a job marked processing is eventually marked completed or failed, also when its
\* encoder run does not finish.
C15_ProcessingEventuallyEnds ==
  (status = "processing") ~> (status \in {"completed", "failed"})

\* C16: a /process job is marked completed only if the probed duration of its output is
\* within the tolerance of the target duration.
C16_DurationMismatchReported ==
  (rpc # "idle" /\ request.endpoint = "process" /\ status = "completed") =>
    QLe(QAbs(QSub(metadata, request.targetDuration)), Tolerance)

\* the first media item of the request cannot be had
FirstItemFails ==
  /\ request.images > 0 \/ request.endpoint = "enhance"
  /\ request.asset # "downloaded"

\* C17: a request with a media item that is missing or cannot be downloaded is rejected
\* for that asset and gets no placeholder (no configuration of the service enables one).
C17_MissingAssetRejected ==
  (rpc \notin {"idle", "prepareAssets"} /\ FirstItemFails) =>
    (rerror = "asset" /\ ~rassets.placeholder)

\* ------------------------------------------------------------------------
\* Properties of the duration bookkeeping
\* ------------------------------------------------------------------------

\* C18: Scenario C. When the voice-over with its start delay and end padding needs more
\* time than the nominal target duration, applyAudio's final target duration and the video
\* stream it writes last at least that long, whatever the earlier duration step did; and
\* renderVideo hands the renderer a duration that is at least the voice-over's.
C18_VideoExtendedForVoiceover ==
  /\ (enh.stage = "audio" /\ enh.voiceover # 0
      /\ QLt(Q(enh.result.initialTarget, 1), enh.result.totalVoiceoverTime)) =>
       /\ QLe(enh.result.totalVoiceoverTime, Q(enh.result.targetVideoDuration, 1))
       /\ QLe(enh.result.totalVoiceoverTime, Q(enh.result.video, 1))
  /\ (enh.stage = "renderVideo" /\ enh.targetDuration # 0
      /\ enh.voiceover > enh.targetDuration) =>
       enh.duration >= enh.voiceover

\* ------------------------------------------------------------------------
\* Properties of the platform catalog
\* ------------------------------------------------------------------------

\* C19: for every platform with a sizing configuration and every logo with positive
\* dimensions, the height calculateLogoSize returns is within the platform's
\* [minSize, maxSize], and width / height equals the logo's width / height up to the
\* rounding of the two results: |width * oh - height * ow| <= (oh + ow) / 2.
C19_LogoSizeWithinBounds ==
  (sizing # NoLookup /\ sizing.platform \in DOMAIN PLATFORM_CONFIGS) =>
    LET config == PLATFORM_CONFIGS[sizing.platform]
        ow == sizing.logo[1]
        oh == sizing.logo[2]
    IN  /\ config.minSize <= sizing.size.height
        /\ sizing.size.height <= config.maxSize
        /\ 2 * Abs(sizing.size.width * oh - sizing.size.height * ow) <= oh + ow

C19_Witness ==
  /\ sizing # NoLookup
  /\ sizing.platform = "linkedin"
  /\ sizing.logo = <<40, 40>>
  /\ sizing.size.height = 70

\* C20: a component that resolves a platform identifier which is not in the catalog
\* reports an error; it never answers with the configuration of another platform.
C20_UnknownPlatformIsError ==
  (lookup # NoLookup /\ lookup.platform \notin TemplateKeys) => lookup.config = "error"

\* C21: recommendMode answers crop_fill for a mismatch below 0.2, blur_background for
\* a mismatch in [0.2, 0.5) and letterbox for a mismatch of 0.5 or more, and its answer
\* is always one of the three modes the renderer dispatches on.
C21_ModeByMismatch ==
  layout.component = "recommendMode" =>
    LET mismatch == MismatchRatio(Q(layout.image[1], layout.image[2]),
                                  Q(layout.video[1], layout.video[2]))
    IN  /\ layout.mode \in
             {IMAGE_MODES.CROP_FILL, IMAGE_MODES.BLUR_BACKGROUND, IMAGE_MODES.LETTERBOX}
        /\ QLt(mismatch, Q(1, 5)) => layout.mode = "crop_fill"
        /\ (QLe(Q(1, 5), mismatch) /\ QLt(mismatch, Q(1, 2))) =>
             layout.mode = "blur_background"
        /\ QLe(Q(1, 2), mismatch) => layout.mode = "letterbox"

\* C23: when the probe of an overlay fails or reports a zero width or height, the
\* overlay is sized as 1920x1080, the request goes on, and the size is a finite number.
C23_UnreadableOverlayFallsBack ==
  (/\ layout.component = "dimensions"
   /\ (layout.probe.err \/ layout.probe.width = 0 \/ layout.probe.height = 0)) =>
    /\ ~layout.thrown
    /\ layout.dimensions.width = FallbackDimensions.width
    /\ layout.dimensions.height = FallbackDimensions.height
    /\ layout.size.finite

\* C26: the rectangle calculateLogoSize returns lies inside the frame.
C26_LogoInsideFrame ==
  sizing # NoLookup =>
    /\ sizing.size.x >= 0
    /\ sizing.size.y >= 0
    /\ sizing.size.x + sizing.size.width <= sizing.video[1]
    /\ sizing.size.y + sizing.size.height <= sizing.video[2]

\* C22: in every filter graph of N >= 2 images the i-th crossfade join (i = 1..N-1) has
\* the offset i * perImageDuration - transitionDuration; the graph of a single image has
\* no join.
C22_JoinOffsets ==
  \A r \in GraphRenders :
    LET g == renders[r].graph
    IN  /\ DOMAIN g.offsets = 1..(g.numSegments - 1)
        /\ g.numSegments = 1 => g.offsets = <<>>
        /\ \A i \in DOMAIN g.offsets :
             g.offsets[i] = QSub(QMulInt(g.actualImageDuration, i), g.transitionDuration)

C22_Witness ==
  /\ pc = "resolved"
  /\ \E r \in GraphRenders :
       /\ renders[r].graph.numSegments = 3
       /\ renders[r].graph.duration = Q(15, 1)
       /\ renders[r].graph.offsets = <<Q(24, 5), Q(51, 5)>>

\* duration of the stream the i-th join reads as its first input: the first clip, or the
\* output of join i-1
Accumulated(g, i) ==
  IF i = 1 THEN g.actualImageDuration
  ELSE XfadeOut(g.offsets[i - 1], g.actualImageDuration)

\* C24: in every crossfade chain each join's window [offset, offset + transitionDuration]
\* lies within the duration of the stream accumulated by the previous joins.
C24_JoinWindowInsideStream ==
  \A r \in GraphRenders :
    LET g == renders[r].graph
    IN  \A i \in DOMAIN g.offsets :
          /\ QLe(QZero, g.offsets[i])
          /\ QLe(QAdd(g.offsets[i], g.transitionDuration), Accumulated(g, i))

\* renders that composite the review card, with the duration they are built for
ReviewRenders ==
  {[window |-> renders[r].graph.reviewWindow, duration |-> renders[r].graph.duration] :
     r \in {x \in GraphRenders : "review" \in renders[x].graph.overlays}}
  \cup
  {[window |-> renders[r].reviewWindow, duration |-> renders[r].duration] :
     r \in {x \in 1..Len(renders) :
              renders[x].kind = "overlay" /\ "review" \in renders[x].overlays}}

\* C25: whenever a review card is composited, its visibility window satisfies
\* reviewStart < reviewEnd <= duration.
C25_ReviewWindowValid ==
  \A c \in ReviewRenders :
    /\ QLt(c.window.start, c.window.end)
    /\ QLe(c.window.end, c.duration)

\* C27: the duration renderVideo hands to the renderer is within the resolved template's
\* [duration.min, duration.max], whether it comes from settings.targetDuration, from the
\* voice-over or from the image count.
C27_DurationWithinTemplateRange ==
  enh.stage = "renderVideo" =>
    /\ templates[enh.platform].duration.min <= enh.duration
    /\ enh.duration <= templates[enh.platform].duration.max

\* C28: in the filter graph of any image list, duplicates included, every stream label is
\* defined by exactly one filter and every processed-image label is read by exactly one
\* clip.
C28_LabelsDefinedAndReadOnce ==
  layout.component = "filters" =>
    LET fs == layout.filters
    IN  /\ \A i, j \in DOMAIN fs : fs[i].out = fs[j].out => i = j
        /\ \A i \in DOMAIN fs :
             fs[i].out.name = "processed" =>
               Cardinality({k \in DOMAIN fs : /\ fs[k].out.name = "v"
                                              /\ fs[k].in[1] = fs[i].out}) = 1

\* C30: within one invocation of processVideo or processEnhancedVideo, once the status
\* has been set to completed no later step of the invocation sets it to failed, also when
\* the cleanup after the update fails.
C30_CompletedNeverFailed ==
  [][status = "completed" => status' # "failed"]_vars

\* C29: for every /enhance request the handler sends exactly one response, whatever the
\* order of the timeout callback and of the end of processEnhancedVideo: res.json is
\* called at most once, exactly once when the handler has ended, and no call fails
\* because the response was already sent.
C29_ExactlyOneResponse ==
  \A q \in HttpRequests :
    /\ Len(http[q].calls) <= 1
    /\ http[q].pc = "ended" => Len(http[q].calls) = 1
    /\ ~http[q].unhandled

====
